---- MODULE Spec2Model ----
(***************************************************************************)
(* A model of autoslicer (src/src/autoslicer/autoslice.py): the AutoSlicer *)
(* class used as a library (Spec) and the command-line entry point         *)
(* (SpecMain).                                                             *)
(*                                                                         *)
(* Representation.  A Python str is a sequence of one-character strings    *)
(* (Chars), so that replace, rsplit, lower, stem and the f-strings are     *)
(* computed character by character.  A file-system path is a sequence of   *)
(* components, each a Chars.  An element of a command list is a record     *)
(*   [kind, chars, path, n]                                                *)
(* kind "str": a plain string (chars); kind "path": a path string (path);  *)
(* kind "int": a Python int (n); kind "None": Python's None.               *)
(* Scores are fixed-point: the number the orientation tool prints is in    *)
(* thousandths, Python floats rounded to two decimals are in hundredths.   *)
(***************************************************************************)
EXTENDS Integers, Sequences, FiniteSets, TLC

VARIABLES
    mode,              \* "api": AutoSlicer used as a library; "cli": __main__
    pc,                \* position of the single thread of control
    constructed,       \* an AutoSlicer object exists
    volumes,           \* self.volumes: sequence of Volume records
    added,             \* history: the arguments of every add_volume call
    call,              \* arguments of the running slice call
    idx,               \* index of the volume the loop of slice is at
    temp_directory,    \* id of the TemporaryDirectory of the running call (0: none)
    ndirs,             \* temporary directories created so far
    dirs,              \* ids of the temporary directories that exist
    files,             \* paths of the files that exist in temporary directories
    log,               \* external steps of the current slice call, in order
    printed,           \* messages printed by the current call / by __main__
    cmd,               \* the command list built by the last __runSlicer
    last_output_file,  \* self.last_output_file
    nslices,           \* slice calls started so far
    result,            \* how the last slice call ended: "none", "running", "returned", "raised"
    argv,              \* command-line arguments (cli)
    exists,            \* which of the paths of argv exist (cli)
    config,            \* self.config_path and the values __config_parser extracted
    ncalls             \* calls made on the library object so far

vars == <<mode, pc, constructed, volumes, added, call, idx, temp_directory, ndirs,
          dirs, files, log, printed, cmd, last_output_file, nslices, result,
          argv, exists, config, ncalls>>

-----------------------------------------------------------------------------
(* Bounds of the model *)

\* The number of calls (add_volume, set_config, slice) made on one AutoSlicer.
MaxCalls == 3

-----------------------------------------------------------------------------
(* Strings *)

\* Decimal digit d as a character.
DigitChar(d) == <<"0", "1", "2", "3", "4", "5", "6", "7", "8", "9">>[d + 1]

\* Value of a digit character.
DigitVal(c) == CHOOSE d \in 0..9 : DigitChar(d) = c

RECURSIVE IntStr(_)
\* str(n) for an int n >= 0.
IntStr(n) == IF n < 10 THEN <<DigitChar(n)>> ELSE IntStr(n \div 10) \o <<DigitChar(n % 10)>>

RECURSIVE ParseInt(_)
\* int(s) for a non-empty digit string.
ParseInt(s) ==
    IF Len(s) = 1 THEN DigitVal(s[1])
    ELSE 10 * ParseInt(SubSeq(s, 1, Len(s) - 1)) + DigitVal(s[Len(s)])

\* s.rfind(c): the last index of character c in s, 0 if absent (1-based).
RFind(s, c) ==
    IF \E i \in 1..Len(s) : s[i] = c
    THEN CHOOSE i \in 1..Len(s) : s[i] = c /\ \A j \in (i + 1)..Len(s) : s[j] # c
    ELSE 0

\* The letters, upper case and lower case in the same order.
UpperCase ==
    <<"A", "B", "C", "D", "E", "F", "G", "H", "I", "J", "K", "L", "M",
      "N", "O", "P", "Q", "R", "S", "T", "U", "V", "W", "X", "Y", "Z">>

LowerCase ==
    <<"a", "b", "c", "d", "e", "f", "g", "h", "i", "j", "k", "l", "m",
      "n", "o", "p", "q", "r", "s", "t", "u", "v", "w", "x", "y", "z">>

\* c.lower() for one character (ASCII).
LowerChar(c) ==
    IF \E i \in DOMAIN UpperCase : UpperCase[i] = c
    THEN LowerCase[CHOOSE i \in DOMAIN UpperCase : UpperCase[i] = c]
    ELSE c

\* s.lower()
Lower(s) == [i \in 1..Len(s) |-> LowerChar(s[i])]

\* Variant: the key taken as it is.
ReplaceUnderscoreNot(key) == key

\* key.replace("_", "-")
ReplaceUnderscore(key) == [i \in 1..Len(key) |-> IF key[i] = "_" THEN "-" ELSE key[i]]

-----------------------------------------------------------------------------
(* Elements of command lists *)

Str(s) == [kind |-> "str", chars |-> s, path |-> <<>>, n |-> 0]

PathStr(p) == [kind |-> "path", chars |-> <<>>, path |-> p, n |-> 0]

IntVal(k) == [kind |-> "int", chars |-> <<>>, path |-> <<>>, n |-> k]

None == [kind |-> "None", chars |-> <<>>, path |-> <<>>, n |-> 0]

\* What subprocess accepts as an argument: str (or path-like), not int or None.
IsStr(t) == t.kind \in {"str", "path"}

-----------------------------------------------------------------------------
(* Floats with two decimals *)

\* round(float(temp), 2) of a number printed in thousandths, result in hundredths.
\* Inputs ending in 5 (binary-representation ties) are not drawn.
Round2(raw) == IF raw % 10 < 5 THEN raw \div 10 ELSE raw \div 10 + 1

\* str(x) / f"{x}" of a float x = h/100: shortest repr, at least one decimal.
FloatStr(h) ==
    IntStr(h \div 100) \o <<".">> \o
    (IF h % 10 = 0 THEN <<DigitChar((h % 100) \div 10)>>
     ELSE <<DigitChar((h % 100) \div 10), DigitChar(h % 10)>>)

\* float(s) of a string "i.f" or "i.ff", in hundredths.
ParseFloat(s) ==
    LET dot == RFind(s, ".")
        ip == ParseInt(SubSeq(s, 1, dot - 1))
        fr == SubSeq(s, dot + 1, Len(s))
    IN  100 * ip + (IF Len(fr) = 1 THEN 10 * DigitVal(fr[1]) ELSE ParseInt(fr))

\* AutoSlicer.treshold_supports = 1.0, in hundredths
treshold_supports == 100

\* AutoSlicer.treshold_brim = 2.0, in hundredths
treshold_brim == 200

-----------------------------------------------------------------------------
(* String literals of the source *)

S_load == <<"-", "-", "l", "o", "a", "d">>

S_g == <<"-", "g">>

S_merge == <<"-", "-", "m", "e", "r", "g", "e">>

S_brim_width == <<"-", "-", "b", "r", "i", "m", "-", "w", "i", "d", "t", "h">>

S_5 == <<"5">>

S_skirt_distance == <<"-", "-", "s", "k", "i", "r", "t", "-", "d", "i", "s", "t", "a", "n", "c", "e">>

S_6 == <<"6">>

S_support_material == <<"-", "-", "s", "u", "p", "p", "o", "r", "t", "-", "m", "a", "t", "e", "r", "i", "a", "l">>

S_output == <<"-", "-", "o", "u", "t", "p", "u", "t">>

S_tweaked_stl == <<"t", "w", "e", "a", "k", "e", "d", ".", "s", "t", "l">>

S_translated_ == <<"t", "r", "a", "n", "s", "l", "a", "t", "e", "d", "_">>

S_dot_stl == <<".", "s", "t", "l">>

S_print_time == <<"_", "{", "p", "r", "i", "n", "t", "_", "t", "i", "m", "e", "}">>

S_gcode == <<".", "g", "c", "o", "d", "e">>

S_stl == <<"s", "t", "l">>

S_3mf == <<"3", "m", "f">>

S_tmp == <<"t", "m", "p">>

-----------------------------------------------------------------------------
(* Paths.  A path argument is a record [abs, parts]; an absolute normalised *)
(* path is its sequence of components, <<>> being the root "/".            *)

\* os.getcwd(): the directory the program runs in.
Cwd == <<<<"h">>, <<"u">>>>

\* The home directory expanduser() substitutes for a leading "~".
Home == <<<<"h">>>>

RECURSIVE Normalize(_)
\* Collapse "." and ".." components of an absolute path ("/.." is "/").
Normalize(parts) ==
    IF parts = <<>> THEN <<>>
    ELSE LET front == Normalize(SubSeq(parts, 1, Len(parts) - 1))
             last == parts[Len(parts)]
         IN  IF last = <<".">> THEN front
             ELSE IF last = <<".", ".">>
                  THEN (IF front = <<>> THEN <<>> ELSE SubSeq(front, 1, Len(front) - 1))
                  ELSE Append(front, last)

\* os.path.abspath(p)
Abspath(p) == IF p.abs THEN Normalize(p.parts) ELSE Normalize(Cwd \o p.parts)

\* Path(p).expanduser().resolve() (no symbolic links in the model)
Resolve(p) ==
    IF ~p.abs /\ p.parts # <<>> /\ p.parts[1] = <<"~">>
    THEN Normalize(Home \o Tail(p.parts))
    ELSE Abspath(p)

\* PurePath.name: the final component ("" for the root).
Name(path) == IF path = <<>> THEN <<>> ELSE path[Len(path)]

\* PurePath.stem: the name without its last suffix.
Stem(path) ==
    LET name == Name(path)
        i == RFind(name, ".")
    IN  IF 1 < i /\ i < Len(name) THEN SubSeq(name, 1, i - 1) ELSE name

\* PurePath.parent
Parent(path) == IF path = <<>> THEN <<>> ELSE SubSeq(path, 1, Len(path) - 1)

\* PurePath.with_name(name) raises ValueError for a path with an empty name.
WithNameRaises(path) == Name(path) = <<>>

\* PurePath.with_name(name): the same parent, the last component replaced.
WithName(path, name) == Append(Parent(path), name)

\* The directory tempfile.TemporaryDirectory() creates for the d-th time.
TmpDir(d) == <<S_tmp, S_tmp \o IntStr(d)>>

\* True of the files that lie in temporary directory d.
InDir(f, d) == Len(f) > 2 /\ SubSeq(f, 1, 2) = TmpDir(d)

-----------------------------------------------------------------------------
(* Printer configuration files: the path argument and the values of the    *)
(* keys __config_parser extracts.                                          *)

ConfigArg == [abs |-> FALSE, parts |-> <<<<"c", ".", "i", "n", "i">>>>]

\* A configuration file as __config_parser sees it: opens says that open()
\* succeeds and the bed_shape key parses (lines 49-59); keys are the keys among
\* filament_type, printer_model and layer_height that the file holds.
ConfigKeys == {"filament_type", "printer_model", "layer_height"}

ConfigFileA ==
    [arg |-> ConfigArg, opens |-> TRUE, keys |-> ConfigKeys,
     layer_height |-> <<"0", ".", "2">>,
     filament_type |-> <<"P", "L", "A">>, printer_model |-> <<"M", "K", "3", "S">>]

ConfigFileB ==
    [arg |-> [abs |-> TRUE, parts |-> <<<<"o", ".", "i", "n", "i">>>>],
     opens |-> TRUE, keys |-> ConfigKeys,
     layer_height |-> <<"0", ".", "3">>,
     filament_type |-> <<"P", "E", "T", "G">>, printer_model |-> <<"M", "I", "N", "I">>]

\* What can be found at the path of a file: the file absent or unparsable, or
\* the file with any of its three keys missing.
ConfigFileVariants(file) ==
    {[file EXCEPT !.opens = FALSE]} \cup
    {[file EXCEPT !.keys = k] : k \in SUBSET ConfigKeys}

\* The files handed to set_config.
ConfigFiles == ConfigFileVariants(ConfigFileA) \cup ConfigFileVariants(ConfigFileB)

\* No AutoSlicer object yet.
NoConfig ==
    [config_path |-> <<>>, layer_height |-> <<>>, filament_type |-> <<>>,
     printer_model |-> <<>>]

\* __config_parser raises (open() fails, or a key is missing) before it has
\* assigned every value.
config_parser_raises(file) == ~file.opens \/ file.keys # ConfigKeys

\* set_config: self.config_path is assigned first; __config_parser then opens
\* the file and assigns self.filament_type, self.printer_model and
\* self.layer_height one after the other. The first missing key raises KeyError
\* and leaves the values assigned before it in place.
set_config(self, file) ==
    LET s0 == [self EXCEPT !.config_path = Resolve(file.arg)]
        s1 == [s0 EXCEPT !.filament_type = file.filament_type]
        s2 == [s1 EXCEPT !.printer_model = file.printer_model]
        s3 == [s2 EXCEPT !.layer_height = file.layer_height]
    IN  IF ~file.opens \/ "filament_type" \notin file.keys THEN s0
        ELSE IF "printer_model" \notin file.keys THEN s1
        ELSE IF "layer_height" \notin file.keys THEN s2
        ELSE s3

-----------------------------------------------------------------------------
(* AutoSlicer: the pure parts *)

\* __tweakFile: output_file = os.path.join(tmpdir, "tweaked.stl")
TweakedFile(d) == Append(TmpDir(d), S_tweaked_stl)

\* __adjustHeight: os.path.join(tmpdir, f"translated_{i}.stl")
TranslatedFile(d, i) == Append(TmpDir(d), S_translated_ \o IntStr(i) \o S_dot_stl)

RECURSIVE SearchName(_, _, _, _)
\* __adjustHeight: while output_file.exists(): output_file = translated_{i}; i += 1
SearchName(fs, d, output_file, i) ==
    IF output_file \in fs THEN SearchName(fs, d, TranslatedFile(d, i), i + 1)
    ELSE output_file

\* Variant: no search, always the first name.
ChooseOutputFileFirst(fs, d) == TranslatedFile(d, 1)

\* __adjustHeight: the output file chosen in directory d, given the files fs.
ChooseOutputFile(fs, d) == SearchName(fs, d, TranslatedFile(d, 1), 1)

RECURSIVE parse_kwargs(_)
\* __parse_kwargs: kwargs is the ordered dict, a sequence of [key, value].
parse_kwargs(kwargs) ==
    IF kwargs = <<>> THEN <<>>
    ELSE LET n == Len(kwargs)
             key == ReplaceUnderscore(kwargs[n].key)
         IN  parse_kwargs(SubSeq(kwargs, 1, n - 1))
                 \o <<Str(<<"-", "-">> \o key), kwargs[n].value>>

\* Volume.__init__ as called by add_volume, then new_volume.args = ...
NewVolume(input_file, args) ==
    [path |-> input_file, args |-> args, tmp_path |-> Str(<<>>), unprintability |-> <<>>]

\* Variant: the new volume is put in front of the list.
add_volumeFront(vols, input, kwargs) ==
    <<NewVolume(Resolve(input), parse_kwargs(kwargs))>> \o vols

\* add_volume: the volume list after the call.
add_volume(vols, input, kwargs) ==
    Append(vols, NewVolume(Resolve(input), parse_kwargs(kwargs)))

RECURSIVE VolumeArgs(_)
\* __runSlicer: for v in self.volumes: cmd.extend([v.tmp_path] + v.args)
VolumeArgs(vols) ==
    IF vols = <<>> THEN <<>>
    ELSE LET v == vols[Len(vols)]
         IN  VolumeArgs(SubSeq(vols, 1, Len(vols) - 1)) \o <<v.tmp_path>> \o v.args

\* __runSlicer: max([float(v.unprintability) for v in self.volumes]), in hundredths
MaxUnprintability(vols) ==
    LET s == {ParseFloat(vols[i].unprintability) : i \in 1..Len(vols)}
    IN  CHOOSE m \in s : \A x \in s : x <= m

\* Variant: the thresholds compared with >= instead of >.
ExtraFlagsInclusive(unprintability) ==
    (IF unprintability >= treshold_brim
     THEN <<Str(S_brim_width), Str(S_5), Str(S_skirt_distance), Str(S_6)>> ELSE <<>>)
    \o (IF unprintability >= treshold_supports THEN <<Str(S_support_material)>> ELSE <<>>)

\* __runSlicer: the flags the two thresholds add.
ExtraFlags(unprintability) ==
    (IF unprintability > treshold_brim
     THEN <<Str(S_brim_width), Str(S_5), Str(S_skirt_distance), Str(S_6)>> ELSE <<>>)
    \o (IF unprintability > treshold_supports THEN <<Str(S_support_material)>> ELSE <<>>)

\* __runSlicer: output_name
OutputName(self, output_path, unprintability) ==
    Stem(output_path) \o <<"_">> \o self.layer_height \o <<"m", "m">>
        \o <<"_", "U">> \o FloatStr(unprintability) \o S_print_time
        \o <<"_">> \o self.filament_type \o <<"_">> \o self.printer_model \o S_gcode

\* __runSlicer: output_file = str(output_path.with_name(output_name))
OutputFile(self, output, unprintability) ==
    LET output_path == Resolve(output)
    IN  WithName(output_path, OutputName(self, output_path, unprintability))

\* __runSlicer: the command list handed to subprocess.run
SlicerCmd(slicer, self, vols, output, kwargs) ==
    LET unprintability == MaxUnprintability(vols)
    IN  <<PathStr(slicer), Str(S_load), PathStr(self.config_path), Str(S_g), Str(S_merge)>>
            \o VolumeArgs(vols)
            \o ExtraFlags(unprintability)
            \o parse_kwargs(kwargs)
            \o <<Str(S_output), PathStr(OutputFile(self, output, unprintability))>>

-----------------------------------------------------------------------------
(* Inputs the model draws *)

\* Numbers the orientation tool prints as "unprintability", in thousandths.
RawScores == {1004, 1996, 2006}

\* Keyword arguments: one key, two keys, a value that is not a string.
Kw1 ==
    <<[key |-> <<"f", "i", "l", "l", "_", "d", "e", "n", "s", "i", "t", "y">>,
       value |-> Str(<<"2", "0", "%">>)]>>

Kw2 ==
    <<[key |-> <<"d", "o", "n", "t", "_", "a", "r", "r", "a", "n", "g", "e">>,
       value |-> Str(<<"1">>)],
      [key |-> <<"f", "i", "r", "s", "t", "_", "l", "a", "y", "e", "r", "_",
                  "h", "e", "i", "g", "h", "t">>,
       value |-> Str(<<"0", ".", "3">>)]>>

KwInt == <<[key |-> <<"s", "c", "a", "l", "e">>, value |-> IntVal(2)]>>

\* Calls of add_volume: the model file and the keyword arguments.
VolumeInputs ==
    { [input |-> [abs |-> TRUE, parts |-> <<<<"m">>, <<"a", ".", "s", "t", "l">>>>],
       kwargs |-> Kw1],
      [input |-> [abs |-> FALSE,
                  parts |-> <<<<"~">>, <<".", ".">>, <<"b", ".", "3", "m", "f">>>>],
       kwargs |-> Kw2] }

\* Keyword arguments handed to slice.
SliceKwargs == {<<>>, KwInt}

\* Output path handed to slice by a caller of the library.
SliceOutputs == { [abs |-> FALSE, parts |-> <<<<".">>, <<"o", ".", "d">>>>] }

\* Output folders given with -o/--output (the default is os.getcwd()).
OutputPaths ==
    SliceOutputs \cup { [abs |-> TRUE, parts |-> <<>>], [abs |-> TRUE, parts |-> Cwd] }

\* Input file names given on the command line (files of the current directory).
InputFileNames ==
    { <<"a", ".", "s", "t", "l">>, <<"a", ".", "S", "T", "L">>, <<"a", ".", "3", "m", "f">>,
      <<"a", ".", "o", "b", "j">>, <<"a">> }

\* slicer_path
SlicerArg == [abs |-> TRUE, parts |-> <<<<"p">>, <<"s", "l", "i", "c", "e", "r">>>>]

\* __init__: self.slicer
self_slicer == Resolve(SlicerArg)

\* One print() call: the literal text and the value printed with it (None:
\* no value, or one the model does not compute).
Msg(text, arg) == [text |-> text, arg |-> arg]

-----------------------------------------------------------------------------
(* State *)

Event(step, vol, started) == [step |-> step, vol |-> vol, started |-> started]

NoCall == [output |-> [abs |-> TRUE, parts |-> <<>>], view_output |-> FALSE, kwargs |-> <<>>]

\* The state after AutoSlicer(slicer_path, config_path): __init__
Init ==
    /\ mode = "api"
    /\ pc = "idle"
    /\ constructed = TRUE
    /\ volumes = <<>>
    /\ added = <<>>
    /\ call = NoCall
    /\ idx = 0
    /\ temp_directory = 0
    /\ ndirs = 0
    /\ dirs = {}
    /\ files = {}
    /\ log = <<>>
    /\ printed = <<>>
    /\ cmd = <<>>
    /\ last_output_file = Str(<<>>)
    /\ nslices = 0
    /\ result = "none"
    /\ argv = [inputFile |-> <<>>, output |-> [abs |-> TRUE, parts |-> Cwd]]
    /\ exists = [input |-> TRUE, output |-> "yes", slicer |-> TRUE, config |-> TRUE]
    /\ config = set_config(NoConfig, ConfigFileA)
    /\ ncalls = 0

\* The state after parser.parse_args() in __main__
InitMain ==
    /\ mode = "cli"
    /\ pc = "check_input"
    /\ constructed = FALSE
    /\ volumes = <<>>
    /\ added = <<>>
    /\ call = NoCall
    /\ idx = 0
    /\ temp_directory = 0
    /\ ndirs = 0
    /\ dirs = {}
    /\ files = {}
    /\ log = <<>>
    /\ printed = <<>>
    /\ cmd = <<>>
    /\ last_output_file = Str(<<>>)
    /\ nslices = 0
    /\ result = "none"
    /\ argv \in [inputFile : InputFileNames, output : OutputPaths]
    /\ exists \in [input : BOOLEAN, output : {"yes", "no", "no_parent"},
                   slicer : BOOLEAN, config : BOOLEAN]
    /\ (Abspath(argv.output) = <<>> => exists.output = "yes")
    /\ config = NoConfig
    /\ ncalls = 0

-----------------------------------------------------------------------------
(* AutoSlicer.slice, one step per external operation *)

\* TemporaryDirectory.__exit__: the directory is removed ...
RemoveDir(ds, d) == ds \ {d}

\* ... with everything in it.
RemoveFiles(fs, d) == {f \in fs : ~InDir(f, d)}

\* Where control is after slice has ended.
AfterSlice(raised) == IF mode = "api" THEN "idle" ELSE IF raised THEN "crashed" ELSE "done"

\* Variant: the directory is removed on the normal path only.
UnwindLeak ==
    /\ dirs' = dirs
    /\ files' = files
    /\ temp_directory' = 0
    /\ result' = "raised"
    /\ pc' = AfterSlice(TRUE)

\* An exception leaves the with block of slice and slice itself.
Unwind ==
    /\ dirs' = RemoveDir(dirs, temp_directory)
    /\ files' = RemoveFiles(files, temp_directory)
    /\ temp_directory' = 0
    /\ result' = "raised"
    /\ pc' = AfterSlice(TRUE)

\* slice: entering the with block.
EnterSlice(output, view_output, kwargs) ==
    /\ call' = [output |-> output, view_output |-> view_output, kwargs |-> kwargs]
    /\ ndirs' = ndirs + 1
    /\ temp_directory' = ndirs + 1
    /\ dirs' = dirs \cup {ndirs + 1}
    /\ log' = <<Event("mkdtemp", 0, TRUE)>>
    /\ printed' = Append(IF mode = "cli" THEN printed ELSE <<>>,
                       Msg("Temp. dir:", PathStr(TmpDir(ndirs + 1))))
    /\ idx' = 1
    /\ pc' = IF volumes = <<>> THEN "slicer" ELSE "tweak"
    /\ cmd' = <<>>
    /\ result' = "running"
    /\ nslices' = nslices + 1
    /\ UNCHANGED <<mode, constructed, volumes, added, files, last_output_file, argv, exists,
                   config>>

\* autoslicer.slice(output, view_output, **kwargs) called on the library object.
Slice(output, view_output, kwargs) ==
    /\ mode = "api"
    /\ pc = "idle"
    /\ ncalls < MaxCalls
    /\ ncalls' = ncalls + 1
    /\ EnterSlice(output, view_output, kwargs)

\* __tweakFile returns (output_file, unprintability); wrote: the tool wrote
\* the output file (it prints a score without writing when the -o argument
\* does not reach it).
TweakOk(raw, wrote) ==
    /\ pc = "tweak"
    /\ LET output_file == TweakedFile(temp_directory)
           unprintability == FloatStr(Round2(raw))
       IN  /\ files' = IF wrote THEN files \cup {output_file} ELSE files
           /\ volumes' = [volumes EXCEPT ![idx].tmp_path = PathStr(output_file),
                                         ![idx].unprintability = unprintability]
           /\ printed' = Append(printed, Msg("Unprintability: ", Str(unprintability)))
    /\ log' = Append(log, Event("tweak", idx, TRUE))
    /\ pc' = "adjust"
    /\ UNCHANGED <<mode, constructed, added, call, idx, temp_directory, ndirs, dirs, cmd,
                   last_output_file, nslices, result, argv, exists, config, ncalls>>

\* __tweakFile catches an exception, prints and returns None; the tuple
\* assignment in slice then raises TypeError, which leaves slice.
TweakFail ==
    /\ pc = "tweak"
    /\ printed' = Append(printed, Msg("Couldn't run tweaker on file ",
                                      PathStr(volumes[idx].path)))
    /\ log' = log \o <<Event("tweak", idx, FALSE), Event("rmtree", 0, TRUE)>>
    /\ Unwind
    /\ UNCHANGED <<mode, constructed, volumes, added, call, idx, ndirs, cmd,
                   last_output_file, nslices, argv, exists, config, ncalls>>

\* Variant: the output path returned after a failure too.
adjustHeight_returnAlways(ok, output_file) == PathStr(output_file)

\* __adjustHeight returns str(output_file), or None after an exception.
adjustHeight_return(ok, output_file) == IF ok THEN PathStr(output_file) ELSE None

\* Variant: a volume whose height adjustment failed is taken again.
NextVolumeRetry(i, ok) == IF ok THEN i + 1 ELSE i

\* slice: for v in self.volumes moves on to the next volume, whatever happened.
NextVolume(i, ok) == i + 1

\* How one __adjustHeight call can end: the file is saved; Mesh.from_file
\* raises; my_mesh.save raises and leaves no file; my_mesh.save raises and
\* leaves the file it had begun.
AdjustOutcomes == {"ok", "load_raises", "save_raises", "save_raises_partial"}

\* __adjustHeight: the mesh is loaded, "Translated, new Z min:" is printed and
\* the mesh saved; an exception on the way is caught, a message printed and
\* None returned.
AdjustHeight(outcome) ==
    /\ pc = "adjust"
    /\ LET input_file == volumes[idx].tmp_path.path
           output_file == ChooseOutputFile(files, temp_directory)
           ok == outcome = "ok"
       IN  /\ (outcome # "load_raises" => input_file \in files)
           /\ files' = IF outcome \in {"ok", "save_raises_partial"}
                       THEN files \cup {output_file} ELSE files
           /\ volumes' = [volumes EXCEPT ![idx].tmp_path =
                             adjustHeight_return(ok, output_file)]
           /\ printed' = printed
                  \o (IF outcome = "load_raises" THEN <<>>
                      ELSE <<Msg("Translated, new Z min:", None)>>)
                  \o (IF ok THEN <<>>
                      ELSE <<Msg("Couldn't adjust height of file ",
                                 volumes[idx].tmp_path)>>)
           /\ log' = Append(log, Event("adjust", idx, ok))
           /\ idx' = NextVolume(idx, ok)
    /\ pc' = IF idx' <= Len(volumes) THEN "tweak" ELSE "slicer"
    /\ UNCHANGED <<mode, constructed, added, call, temp_directory, ndirs, dirs, cmd,
                   last_output_file, nslices, result, argv, exists, config, ncalls>>

\* __runSlicer raises before the command is complete: max() of an empty list,
\* or with_name() on a path without a name.
RunSlicerRaises ==
    /\ pc = "slicer"
    /\ volumes = <<>> \/ WithNameRaises(Resolve(call.output))
    /\ log' = Append(log, Event("rmtree", 0, TRUE))
    /\ Unwind
    /\ UNCHANGED <<mode, constructed, volumes, added, call, idx, ndirs, printed, cmd,
                   last_output_file, nslices, argv, exists, config, ncalls>>

\* The stand-in for max(parent.glob("*.gcode"), key=os.path.getctime).
NewestGcode(output_file) == PathStr(Append(Parent(output_file), <<"*">> \o S_gcode))

\* __runSlicer: the command is built and printed, subprocess.run(cmd) is called.
\* outcome "ok": the slicer ran and wrote a .gcode; "no_gcode": it ran and the
\* folder holds no .gcode; "not_started": subprocess.run raised (the executable
\* is missing, or an argument is not a string).
RunSlicer(outcome) ==
    /\ pc = "slicer"
    /\ volumes # <<>>
    /\ ~WithNameRaises(Resolve(call.output))
    /\ LET c == SlicerCmd(self_slicer, config, volumes, call.output, call.kwargs)
           output_file == c[Len(c)].path
           allstr == \A i \in 1..Len(c) : IsStr(c[i])
       IN  /\ (~allstr => outcome = "not_started")
           /\ (mode = "cli" /\ ~exists.slicer => outcome = "not_started")
           /\ cmd' = c
           /\ log' = Append(log, Event("slicer", 0, outcome # "not_started"))
           /\ printed' = IF outcome = "ok" THEN Append(printed, Msg("cmd", None))
                         ELSE printed \o <<Msg("cmd", None),
                                            Msg("Couldn't slice volumes ", None)>>
           /\ last_output_file' = IF outcome = "ok" THEN NewestGcode(output_file)
                                  ELSE last_output_file
    /\ pc' = "exit"
    /\ UNCHANGED <<mode, constructed, volumes, added, call, idx, temp_directory, ndirs,
                   dirs, files, nslices, result, argv, exists, config, ncalls>>

\* slice: the with block ends normally.
ExitSlice ==
    /\ pc = "exit"
    /\ dirs' = RemoveDir(dirs, temp_directory)
    /\ files' = RemoveFiles(files, temp_directory)
    /\ temp_directory' = 0
    /\ log' = Append(log, Event("rmtree", 0, TRUE))
    /\ pc' = IF call.view_output THEN "view" ELSE AfterSlice(FALSE)
    /\ result' = IF call.view_output THEN result ELSE "returned"
    /\ UNCHANGED <<mode, constructed, volumes, added, call, idx, ndirs, printed, cmd,
                   last_output_file, nslices, argv, exists, config, ncalls>>

\* slice: if view_output: self.view_gcode(self.last_output_file); started is
\* FALSE when subprocess.run raises.
ViewGcode(started) ==
    /\ pc = "view"
    /\ log' = Append(log, Event("viewer", 0, started))
    /\ result' = IF started THEN "returned" ELSE "raised"
    /\ pc' = AfterSlice(~started)
    /\ UNCHANGED <<mode, constructed, volumes, added, call, idx, temp_directory, ndirs,
                   dirs, files, printed, cmd, last_output_file, nslices, argv, exists, config, ncalls>>

\* autoslicer.add_volume(input, **kwargs) called on the library object.  (An
\* input that Path() rejects raises TypeError and changes nothing.)
AddVolume(input, kwargs) ==
    /\ mode = "api"
    /\ pc = "idle"
    /\ ncalls < MaxCalls
    /\ ncalls' = ncalls + 1
    /\ volumes' = add_volume(volumes, input, kwargs)
    /\ added' = Append(added, [input |-> input, kwargs |-> kwargs])
    /\ UNCHANGED <<mode, pc, constructed, call, idx, temp_directory, ndirs, dirs, files,
                   log, printed, cmd, last_output_file, nslices, result, argv, exists, config>>

\* autoslicer.set_config(config_path) called on the library object; when
\* __config_parser raises, the exception reaches the caller and the object
\* keeps what was assigned before it.
SetConfig(file) ==
    /\ mode = "api"
    /\ pc = "idle"
    /\ ncalls < MaxCalls
    /\ ncalls' = ncalls + 1
    /\ config' = set_config(config, file)
    /\ UNCHANGED <<mode, pc, constructed, volumes, added, call, idx, temp_directory,
                   ndirs, dirs, files, log, printed, cmd, last_output_file, nslices,
                   result, argv, exists>>

SliceSteps ==
    \/ \E raw \in RawScores, wrote \in BOOLEAN : TweakOk(raw, wrote)
    \/ TweakFail
    \/ \E outcome \in AdjustOutcomes : AdjustHeight(outcome)
    \/ RunSlicerRaises
    \/ \E outcome \in {"ok", "no_gcode", "not_started"} : RunSlicer(outcome)
    \/ ExitSlice

Next ==
    \/ \E v \in VolumeInputs : AddVolume(v.input, v.kwargs)
    \/ \E file \in ConfigFiles : SetConfig(file)
    \/ \E output \in SliceOutputs, view_output \in BOOLEAN, kwargs \in SliceKwargs :
           Slice(output, view_output, kwargs)
    \/ SliceSteps
    \/ \E started \in BOOLEAN : ViewGcode(started)

Spec == Init /\ [][Next]_vars

-----------------------------------------------------------------------------
(* __main__: the command-line entry point *)

\* args.inputFile as a path argument (a file of the current directory).
InputArg == [abs |-> FALSE, parts |-> <<argv.inputFile>>]

\* if not os.path.exists(args.inputFile): print, exit()
CheckInput ==
    /\ pc = "check_input"
    /\ IF exists.input
       THEN pc' = "check_ext" /\ printed' = printed
       ELSE /\ pc' = "exited"
            /\ printed' = printed \o <<Msg("Error: input file not found", None),
                                       Msg("", PathStr(Abspath(InputArg)))>>
    /\ UNCHANGED <<mode, constructed, volumes, added, call, idx, temp_directory, ndirs,
                   dirs, files, log, cmd, last_output_file, nslices, result, argv, exists, config, ncalls>>

\* args.inputFile.rsplit(".", 1) has two parts.
HasExtension(inputFile) == RFind(inputFile, ".") > 0

\* The second part of args.inputFile.rsplit(".", 1).
Extension(inputFile) == SubSeq(inputFile, RFind(inputFile, ".") + 1, Len(inputFile))

\* extension.lower() not in ["stl", "3mf"]
InvalidFormat(inputFile) == Lower(Extension(inputFile)) \notin {S_stl, S_3mf}

\* _, extension = args.inputFile.rsplit(".", 1) raises ValueError without a
\* "."; a wrong extension: print, exit()
CheckExtension ==
    /\ pc = "check_ext"
    /\ IF ~HasExtension(argv.inputFile)
       THEN pc' = "crashed" /\ printed' = printed
       ELSE IF InvalidFormat(argv.inputFile)
            THEN /\ pc' = "exited"
                 /\ printed' = printed \o
                        <<Msg("Error: input file has invalid format", None),
                          Msg("Files need to be .stl or .3mf, not .",
                              Str(Lower(Extension(argv.inputFile))))>>
            ELSE pc' = "check_output" /\ printed' = printed
    /\ UNCHANGED <<mode, constructed, volumes, added, call, idx, temp_directory, ndirs,
                   dirs, files, log, cmd, last_output_file, nslices, result, argv, exists, config, ncalls>>

\* if not os.path.exists(args.output): print, os.mkdir (which raises when the
\* parent folder is missing)
CheckOutput ==
    /\ pc = "check_output"
    /\ IF exists.output = "yes"
       THEN pc' = "check_slicer" /\ printed' = printed /\ exists' = exists
       ELSE /\ printed' = Append(printed, Msg("Output path not found, creating ",
                                               PathStr(Abspath(argv.output))))
            /\ IF exists.output = "no"
               THEN pc' = "check_slicer" /\ exists' = [exists EXCEPT !.output = "yes"]
               ELSE pc' = "crashed" /\ exists' = exists
    /\ UNCHANGED <<mode, constructed, volumes, added, call, idx, temp_directory, ndirs,
                   dirs, files, log, cmd, last_output_file, nslices, result, argv, config, ncalls>>

\* if not os.path.exists(args.slicer): print
CheckSlicer ==
    /\ pc = "check_slicer"
    /\ printed' = IF exists.slicer THEN printed
                  ELSE Append(printed, Msg("Error: slicer not found at",
                                           PathStr(Abspath(SlicerArg))))
    /\ pc' = "check_config"
    /\ UNCHANGED <<mode, constructed, volumes, added, call, idx, temp_directory, ndirs,
                   dirs, files, log, cmd, last_output_file, nslices, result, argv, exists, config, ncalls>>

\* if not os.path.exists(args.printerConfig): print
CheckConfig ==
    /\ pc = "check_config"
    /\ printed' = IF exists.config THEN printed
                  ELSE Append(printed, Msg("Error: printer config file not found at",
                                           PathStr(Abspath(ConfigArg))))
    /\ pc' = "construct"
    /\ UNCHANGED <<mode, constructed, volumes, added, call, idx, temp_directory, ndirs,
                   dirs, files, log, cmd, last_output_file, nslices, result, argv, exists, config, ncalls>>

\* autoslicer = AutoSlicer(slicer_path=args.slicer, config_path=args.printerConfig):
\* __init__ -> set_config -> __config_parser reads the config file; open()
\* raises FileNotFoundError when it is missing, and a file that is there can
\* still fail to parse. Either exception ends the program.
Construct ==
    /\ pc = "construct"
    /\ \E file \in ConfigFiles :
           /\ file.arg = ConfigArg
           /\ file.opens => exists.config
           /\ config' = set_config(NoConfig, file)
           /\ IF config_parser_raises(file)
              THEN constructed' = FALSE /\ pc' = "crashed"
              ELSE constructed' = TRUE /\ pc' = "add_volume"
    /\ UNCHANGED <<mode, volumes, added, call, idx, temp_directory, ndirs, dirs, files,
                   log, printed, cmd, last_output_file, nslices, result, argv, exists, ncalls>>

\* input_file = os.path.abspath(args.inputFile); autoslicer.add_volume(input_file)
MainAddVolume ==
    /\ pc = "add_volume"
    /\ LET input_file == [abs |-> TRUE, parts |-> Abspath(InputArg)]
       IN  /\ volumes' = add_volume(volumes, input_file, <<>>)
           /\ added' = Append(added, [input |-> input_file, kwargs |-> <<>>])
    /\ pc' = "slice"
    /\ UNCHANGED <<mode, constructed, call, idx, temp_directory, ndirs, dirs, files,
                   log, printed, cmd, last_output_file, nslices, result, argv, exists, config, ncalls>>

\* output_path = os.path.abspath(args.output); autoslicer.slice(output_path)
MainSlice ==
    /\ pc = "slice"
    /\ ncalls' = ncalls
    /\ EnterSlice([abs |-> TRUE, parts |-> Abspath(argv.output)], FALSE, <<>>)

NextMain ==
    \/ CheckInput
    \/ CheckExtension
    \/ CheckOutput
    \/ CheckSlicer
    \/ CheckConfig
    \/ Construct
    \/ MainAddVolume
    \/ MainSlice
    \/ SliceSteps

SpecMain == InitMain /\ [][NextMain]_vars

-----------------------------------------------------------------------------
(* Properties *)

\* Indices of the events of the current slice call with the given step.
EventsOf(step) == {i \in DOMAIN log : log[i].step = step}

IsLoopStep(e) == e.step \in {"tweak", "adjust"}

\* C1: within one slice call the external steps run in a fixed order: the
\* tweak and adjust steps alternate, volume by volume in list order, none of
\* them twice for a volume; the slicer is invoked at most once, after the
\* tweak and the adjustment of every volume, and nothing of the loop runs
\* after it.
C1_SequentialOrder ==
    LET steps == SelectSeq(log, IsLoopStep)
    IN  /\ \A k \in DOMAIN steps :
               /\ steps[k].step = IF k % 2 = 1 THEN "tweak" ELSE "adjust"
               /\ steps[k].vol = (k + 1) \div 2
        /\ Cardinality(EventsOf("slicer")) <= 1
        /\ \A s \in EventsOf("slicer") :
               /\ result = "running" =>
                  \A v \in 1..Len(volumes) :
                      \E t \in EventsOf("tweak"), a \in EventsOf("adjust") :
                          /\ log[t].vol = v /\ log[a].vol = v /\ t < a /\ a < s
               /\ \A i \in EventsOf("tweak") \cup EventsOf("adjust") : i < s

\* Reached: a call over two volumes in which the slicer was started.
C1_Witness ==
    /\ pc = "exit"
    /\ Len(volumes) = 2
    /\ \E s \in EventsOf("slicer") : log[s].started

\* The scores of the volumes of the job, in hundredths.
C2_Scores == {ParseFloat(volumes[i].unprintability) : i \in 1..Len(volumes)}

C2_HasSupport == \E i \in DOMAIN cmd : cmd[i] = Str(S_support_material)

C2_HasBrim ==
    \E i \in 1..(Len(cmd) - 3) :
        SubSeq(cmd, i, i + 3) = <<Str(S_brim_width), Str(S_5), Str(S_skirt_distance), Str(S_6)>>

\* C2: the command built by __runSlicer contains --support-material exactly
\* when some volume's score is above 1.0, and --brim-width 5 --skirt-distance 6
\* exactly when some volume's score is above 2.0; brim never without support.
C2_ThresholdFlags ==
    pc = "exit" =>
        /\ C2_HasSupport <=> \E x \in C2_Scores : x > 100
        /\ C2_HasBrim <=> \E x \in C2_Scores : x > 200
        /\ C2_HasBrim => C2_HasSupport

\* Reached: two volumes, the highest score exactly 2.0 and another exactly 1.0:
\* support without brim.
C2_Witness ==
    /\ pc = "exit"
    /\ C2_Scores = {100, 200}
    /\ C2_HasSupport
    /\ ~C2_HasBrim

\* C3: a slice call creates one temporary directory before any tool runs;
\* only the running call's directory ever exists; whenever control is outside
\* the with block (the call returned or raised, or the viewer is due or has
\* run) no temporary directory and no file in one exists.
C3_TempDirPerCall ==
    /\ ndirs = nslices
    /\ dirs \subseteq {temp_directory} \ {0}
    /\ \A i \in DOMAIN log : log[i].step # "mkdtemp" => log[1].step = "mkdtemp"
    /\ (pc \in {"idle", "view", "done", "crashed"} \/ result \in {"returned", "raised"}) =>
           dirs = {} /\ files = {}
    /\ \A i \in EventsOf("viewer") : \E r \in EventsOf("rmtree") : r < i
    /\ pc \in {"tweak", "adjust", "slicer", "exit"} => dirs = {temp_directory}

\* Reached: a call that ended by an exception after its orientation step
\* failed, with the tweaked file of an earlier volume written.
C3_Witness ==
    /\ result = "raised"
    /\ ndirs = 1
    /\ dirs = {}
    /\ \E t \in EventsOf("tweak") : ~log[t].started /\ log[t].vol = 2

\* A failed validation of the command line.
C4_ValidationFailed ==
    \/ ~exists.input
    \/ (HasExtension(argv.inputFile) /\ InvalidFormat(argv.inputFile))
    \/ ~exists.slicer
    \/ ~exists.config

\* C4: after a failed validation of the command line no AutoSlicer is
\* constructed and neither the orientation tool nor the slicer is invoked.
C4_ValidationExits ==
    (mode = "cli" /\ C4_ValidationFailed) =>
        /\ ~constructed
        /\ EventsOf("tweak") = {}
        /\ EventsOf("slicer") = {}

\* C5: the file passed to the slicer as --output lies in the folder given
\* with -o/--output (stated for command lines that pass every validation).
C5_OutputInsideFolder ==
    (mode = "cli" /\ ~C4_ValidationFailed /\ cmd # <<>>) =>
        /\ cmd[Len(cmd) - 1] = Str(S_output)
        /\ Parent(cmd[Len(cmd)].path) = Abspath(argv.output)

RECURSIVE C6_Offset(_)
\* The number of command elements before those of volume k + 1.
C6_Offset(k) == IF k = 0 THEN 5 ELSE C6_Offset(k - 1) + 1 + 2 * Len(added[k].kwargs)

\* C6: the volume list is the list of add_volume calls, in call order, each
\* volume holding the resolved path and the arguments of its own call; the
\* slicer command lists the volumes in that order, each model path
\* immediately followed by its own arguments.
C6_VolumesInOrder ==
    /\ Len(volumes) = Len(added)
    /\ \A k \in DOMAIN volumes :
           /\ volumes[k].path = Resolve(added[k].input)
           /\ volumes[k].args = parse_kwargs(added[k].kwargs)
    /\ pc = "exit" =>
           \A k \in DOMAIN volumes :
               /\ cmd[C6_Offset(k - 1) + 1] = volumes[k].tmp_path
               /\ SubSeq(cmd, C6_Offset(k - 1) + 2, C6_Offset(k)) = volumes[k].args

\* Reached: a command for two volumes with different paths and arguments.
C6_Witness ==
    /\ pc = "exit"
    /\ Len(volumes) = 2
    /\ volumes[1].path # volumes[2].path
    /\ volumes[1].args # volumes[2].args

\* Result r is the command-line form of the keyword arguments kw.
C7_IsParsed(kw, r) ==
    /\ Len(r) = 2 * Len(kw)
    /\ \A j \in DOMAIN kw :
           /\ r[2 * j - 1].kind = "str"
           /\ LET flag == r[2 * j - 1].chars
                  key == kw[j].key
              IN  /\ Len(flag) = Len(key) + 2
                  /\ flag[1] = "-" /\ flag[2] = "-"
                  /\ \A c \in DOMAIN key :
                         flag[c + 2] = IF key[c] = "_" THEN "-" ELSE key[c]
           /\ r[2 * j] = kw[j].value

\* C7: every result of __parse_kwargs (the arguments of each volume, and the
\* part of the slicer command made from the keyword arguments of slice) has
\* two elements per keyword, in order: "--" and the keyword with "_" replaced
\* by "-", then the value unchanged; nothing for no keywords (the command
\* has no element besides those of the volumes, the threshold flags, the
\* keywords and --output).
C7_ParseKwargs ==
    /\ \A k \in DOMAIN volumes : C7_IsParsed(added[k].kwargs, volumes[k].args)
    /\ pc = "exit" =>
           LET n == Len(call.kwargs)
               flags == (IF \E x \in C2_Scores : x > 200 THEN 4 ELSE 0)
                            + (IF \E x \in C2_Scores : x > 100 THEN 1 ELSE 0)
           IN  /\ C7_IsParsed(call.kwargs, SubSeq(cmd, Len(cmd) - 1 - 2 * n, Len(cmd) - 2))
               /\ cmd[Len(cmd) - 1] = Str(S_output)
               /\ Len(cmd) = C6_Offset(Len(volumes)) + flags + 2 * n + 2

\* Reached: a command with a volume of two keywords and a slice keyword whose
\* value is not a string.
C7_Witness ==
    /\ pc = "exit"
    /\ call.kwargs = KwInt
    /\ \E k \in DOMAIN volumes : Len(volumes[k].args) = 4

\* A model path of the slicer command: every path in it but the slicer, the
\* configuration file and the output file.
C8_ModelPaths ==
    {cmd[i].path : i \in {j \in 4..(Len(cmd) - 1) : cmd[j].kind = "path"}}

\* C8: a failed orientation or height adjustment is reported by a printed
\* message and the slicer is not started in that call; when the slicer is
\* started, every model of its command is a translated_N.stl that exists in
\* the call's temporary directory, and no element is None.
C8_NoSliceAfterFailure ==
    /\ \A i \in EventsOf("tweak") :
           ~log[i].started =>
               /\ \A s \in EventsOf("slicer") : ~log[s].started
               /\ \E m \in DOMAIN printed : printed[m] = Msg("Couldn't run tweaker on file ", PathStr(volumes[log[i].vol].path))
    /\ \A i \in EventsOf("adjust") :
           ~log[i].started =>
               /\ \A s \in EventsOf("slicer") : ~log[s].started
               /\ \E m \in DOMAIN printed : printed[m].text = "Couldn't adjust height of file "
    /\ (pc = "exit" /\ \E s \in EventsOf("slicer") : log[s].started) =>
           /\ \A i \in DOMAIN cmd : cmd[i] # None
           /\ \A k \in DOMAIN volumes :
                  /\ volumes[k].tmp_path.kind = "path"
                  /\ volumes[k].tmp_path.path \in C8_ModelPaths
           /\ Cardinality(C8_ModelPaths) = Len(volumes)
           /\ \A f \in C8_ModelPaths :
                  /\ f \in files
                  /\ \E n \in 1..Len(volumes) : f = TranslatedFile(temp_directory, n)

\* Reached: the second volume's height adjustment failed and the slicer call
\* was made but no slicer process started.
C8_Witness ==
    /\ pc = "exit"
    /\ \E a \in EventsOf("adjust") : ~log[a].started /\ log[a].vol = 2
    /\ \E s \in EventsOf("slicer") : ~log[s].started
    /\ cmd # <<>>

\* The volumes height-adjusted so far in the current call.
C9_Adjusted == {log[i].vol : i \in EventsOf("adjust")}

\* C9: the file name __adjustHeight chooses does not exist when it is chosen,
\* and while every height adjustment of the call has succeeded the adjusted
\* volumes have pairwise distinct tmp_path values, each a file that exists
\* while the call's directory does.
C9_DistinctOutputs ==
    /\ pc = "adjust" => ChooseOutputFile(files, temp_directory) \notin files
    /\ (\A i \in EventsOf("adjust") : log[i].started) =>
           \A j \in C9_Adjusted, k \in C9_Adjusted :
               /\ j # k => volumes[j].tmp_path # volumes[k].tmp_path
               /\ volumes[j].tmp_path.kind = "path"
               /\ volumes[j].tmp_path.path # TweakedFile(ndirs)
               /\ temp_directory # 0 => volumes[j].tmp_path.path \in files

\* Reached: both volumes of a call adjusted, after the shared tweaked.stl was
\* written twice.
C9_Witness ==
    /\ pc = "slicer"
    /\ Len(volumes) = 2
    /\ C9_Adjusted = {1, 2}
    /\ \A i \in EventsOf("adjust") : log[i].started
    /\ TweakedFile(temp_directory) \in files

====
